---- MODULE Spec2Model ----
(***************************************************************************)
(* Constant / static-data materialization (src/src/constant.rs).           *)
(*                                                                         *)
(* One compilation unit: a ConstantCx (todo, done) and a cranelift Module  *)
(* (declared data objects, declared functions).  Code generation issues    *)
(* requests (codegen_static, codegen_static_ref, trans_const_place), then  *)
(* finalize drains the worklist in define_all_allocs.                      *)
(***************************************************************************)
EXTENDS Integers, Sequences, FiniteSets, Bags, TLC

\* Number of requests code generation may issue before finalize.
MaxReq == 2

\* The longest allocation of a unit whose allocations are drawn by length.
MaxLen == 18

\* tcx.data_layout.pointer_size / pointer_ty(tcx).bytes() on the 64-bit targets
\* cranelift supports.
PtrSize == 8

\* The filler byte and the padding granule of define_all_allocs.
PadByte == 222
PadTo == 16

(***************************************************************************)
(* The evaluator's world: allocations, statics, functions.                 *)
(***************************************************************************)

\* Every static and every function instance has an AllocId of its own in
\* tcx.alloc_map (GlobalAlloc::Static, GlobalAlloc::Function).
StaticAllocId(def) == 10 + def
FnAllocId(f) == 20 + f

\* A relocation of an allocation: (offset, AllocId); the addend is stored in
\* the allocation's bytes at the offset.
Reloc(offset, id, addend) == [offset |-> offset, reloc |-> id, addend |-> addend]

\* The statics of the crate graph, by DefId:
\*   foreign    tcx.is_foreign_item
\*   rawptr     instance.ty(tcx).kind is ty::RawPtr
\*   mutable    is_mutable_static or not Freeze
\*   align      preferred alignment of the type
\*   reachable  tcx.is_reachable_non_generic
\*   weak       #[linkage = "extern_weak"] (get_static_ref_linkage gives Preemptible)
\*   shape      what const_eval of the initializer returns
\*   offset     the offset of a ByRef result
\*   len        length of the initializer allocation
\*   relocs     relocations of the initializer allocation
StaticTable ==
  << \* 1: an exported, immutable static whose initializer points at
     \*    allocation 1 and at the foreign static 2
     [foreign |-> FALSE, rawptr |-> FALSE, mutable |-> FALSE, align |-> 8,
      reachable |-> TRUE, weak |-> FALSE, shape |-> "ByRef", offset |-> 0,
      len |-> 16,
      relocs |-> << Reloc(0, 1, 0), Reloc(8, StaticAllocId(2), 4) >>],
     \* 2: a foreign static (extern block), imported
     [foreign |-> TRUE, rawptr |-> FALSE, mutable |-> TRUE, align |-> 4,
      reachable |-> FALSE, weak |-> FALSE, shape |-> "None", offset |-> 0,
      len |-> 0, relocs |-> << >>],
     \* 3: a foreign extern_weak static of raw pointer type
     [foreign |-> TRUE, rawptr |-> TRUE, mutable |-> FALSE, align |-> 8,
      reachable |-> FALSE, weak |-> TRUE, shape |-> "None", offset |-> 0,
      len |-> 0, relocs |-> << >>],
     \* 4: a foreign extern_weak static whose type is not a raw pointer
     [foreign |-> TRUE, rawptr |-> FALSE, mutable |-> FALSE, align |-> 4,
      reachable |-> FALSE, weak |-> TRUE, shape |-> "None", offset |-> 0,
      len |-> 0, relocs |-> << >>],
     \* 5: a local static whose evaluated initializer is a reference at a
     \*    nonzero offset
     [foreign |-> FALSE, rawptr |-> FALSE, mutable |-> FALSE, align |-> 4,
      reachable |-> FALSE, weak |-> FALSE, shape |-> "ByRef", offset |-> 4,
      len |-> 8, relocs |-> << >>],
     \* 6: a static defined in this crate that also carries extern_weak
     \*    linkage, of raw pointer type, private to the unit
     [foreign |-> FALSE, rawptr |-> TRUE, mutable |-> TRUE, align |-> 8,
      reachable |-> FALSE, weak |-> TRUE, shape |-> "ByRef", offset |-> 0,
      len |-> 8, relocs |-> << >>],
     \* 7: a local static whose initializer holds a function pointer with a
     \*    nonzero addend
     [foreign |-> FALSE, rawptr |-> FALSE, mutable |-> FALSE, align |-> 8,
      reachable |-> FALSE, weak |-> FALSE, shape |-> "ByRef", offset |-> 0,
      len |-> 8, relocs |-> << Reloc(0, FnAllocId(1), 1) >>],
     \* 8: a local static whose evaluated initializer is an immediate
     \*    (ConstValue::Scalar), not a reference
     [foreign |-> FALSE, rawptr |-> FALSE, mutable |-> FALSE, align |-> 4,
      reachable |-> TRUE, weak |-> FALSE, shape |-> "Scalar", offset |-> 0,
      len |-> 4, relocs |-> << >>]
  >>

Statics == 1..Len(StaticTable)

\* The memory allocations of the crate, by AllocId (as handed out by
\* create_memory_alloc): length, alignment and fixed relocations.  Allocation
\* a additionally carries, at offset 0, a pointer to the allocation link[a]
\* when link[a] is not 0 (see Init).
AllocTable ==
  << \* 1: 20 bytes, 16-aligned, a pointer to static 1 (+4) at offset 8
     [len |-> 20, align |-> 16, fixed |-> << Reloc(8, StaticAllocId(1), 4) >>],
     \* 2: 16 bytes, 4-aligned, a function pointer at offset 8
     [len |-> 16, align |-> 4, fixed |-> << Reloc(8, FnAllocId(1), 0) >>]
  >>

Allocs == 1..Len(AllocTable)

\* The addend the evaluator stored for the pointer from a to link[a].
LinkAddend(a) == 255 + 2 * a

VARIABLES
  pc,        \* "codegen", "loop" (inside define_all_allocs), "finished", "aborted"
  err,       \* why the process aborted: "none", or
             \*   "fatal"          tcx.sess.span_fatal in data_id_for_static
             \*   "bug"            bug!("static const eval returned ..")
             \*   "assert_addend"  assert_eq!(addend, 0)
             \*   "assert_todo"    assert!(cx.todo.is_empty())
             \*   "unwrap_define"  module.define_data(..).unwrap() in the loop
             \*   "unwrap_weak"    res.unwrap() in data_id_for_static
  nreq,      \* requests issued so far
  link,      \* the pointer graph of the memory allocations
  todo,      \* ConstantCx.todo
  done,      \* ConstantCx.done
  objs,      \* Module: the declared data objects, indexed by DataId
  funcs,     \* Module: the declared (imported) functions, indexed by FuncId
  defineLog, \* history: every define_data call, as a bag
  doneIns,   \* history: every cx.done.insert(data_id), as a bag
  resolved,  \* history: (symbol, DataId) of every data_id_for_* return
  pushes,    \* history: every cx.todo.insert(item), as a bag
  pops,      \* history: every item pop_set returned, as a bag
  initial,   \* history: todo as it was when finalize was called
  entry,     \* history: the module as it was when finalize was called
  imm,       \* history: what the last trans_const_value call, or the last
             \*   trans_promoted call whose evaluation failed, returned
  owner,     \* tcx.alloc_map: the codegen thread that holds its lock, 0 if none
  at,        \* per codegen thread: where it is in a step that uses tcx.alloc_map
  ops,       \* per codegen thread: the steps it has finished
  fetched    \* per codegen thread: the kind of the target it fetched

\* The state of one compilation unit.
unitvars == << pc, err, nreq, link, todo, done, objs, funcs, defineLog, doneIns,
               resolved, pushes, pops, initial, entry, imm >>

\* The lock of tcx.alloc_map and the threads that use it.
lockvars == << owner, at, ops, fetched >>

vars == << unitvars, lockvars >>

(***************************************************************************)
(* Allocation contents.                                                    *)
(***************************************************************************)

\* tcx.data_layout.endian of the target.
LittleEndian == TRUE

\* Byte k (0-based, from the least significant) of the unsigned value v.
ByteOf(v, k) == CASE k = 0 -> v % 256
                  [] k = 1 -> (v \div 256) % 256
                  [] k = 2 -> (v \div 65536) % 256
                  [] OTHER -> 0

\* The byte the evaluator wrote at offset i of an allocation with these
\* relocations: inside a pointer, the addend in target byte order; elsewhere
\* plain data.
RawByte(relocs, i) ==
  IF \E j \in 1..Len(relocs) : relocs[j].offset <= i /\ i < relocs[j].offset + PtrSize
  THEN LET j == CHOOSE j \in 1..Len(relocs) :
                  relocs[j].offset <= i /\ i < relocs[j].offset + PtrSize
           k == i - relocs[j].offset
       IN ByteOf(relocs[j].addend, IF LittleEndian THEN k ELSE PtrSize - 1 - k)
  ELSE (7 * i + 1) % 256

\* An Allocation: bytes, align, relocations (sorted by offset).
Allocation(len, align, relocs) ==
  [bytes |-> [i \in 1..len |-> RawByte(relocs, i - 1)],
   align |-> align,
   relocs |-> [j \in 1..Len(relocs) |-> [offset |-> relocs[j].offset, reloc |-> relocs[j].reloc]]]

\* The pointers the evaluator stored in memory allocation a under graph lk.
MemoryRelocs(lk, a) ==
  (IF lk[a] = 0 THEN << >> ELSE << Reloc(0, lk[a], LinkAddend(a)) >>)
    \o AllocTable[a].fixed

\* memory.get(alloc_id): the allocation of a memory AllocId under graph lk.
MemoryGet(lk, a) ==
  Allocation(AllocTable[a].len, AllocTable[a].align, MemoryRelocs(lk, a))

\* tcx.const_eval of a static's initializer.
ConstEval(def) ==
  LET s == StaticTable[def]
  IN [shape |-> s.shape, offset |-> s.offset,
      alloc |-> Allocation(s.len, s.align, s.relocs)]

\* tcx.alloc_map.lock().get(reloc): what an AllocId names.
GlobalAlloc(id) ==
  CASE id \in Allocs -> [kind |-> "Memory", id |-> id]
    [] \E d \in Statics : id = StaticAllocId(d) ->
         [kind |-> "Static", id |-> CHOOSE d \in Statics : id = StaticAllocId(d)]
    [] OTHER -> [kind |-> "Function", id |-> id - FnAllocId(0)]

\* read_target_uint(endianness, bytes)
RECURSIVE ReadLE(_)
ReadLE(bytes) == IF bytes = << >> THEN 0 ELSE Head(bytes) + 256 * ReadLE(Tail(bytes))

Reverse(s) == [i \in 1..Len(s) |-> s[Len(s) + 1 - i]]

ReadTargetUint(bytes) == IF LittleEndian THEN ReadLE(bytes) ELSE ReadLE(Reverse(bytes))

(***************************************************************************)
(* The symbol table (cranelift_module::Module).                            *)
(***************************************************************************)

\* Mutant of AllocName: the symbol name does not depend on the AllocId.
AllocNameWithoutId(alloc_id) == << "__alloc_", 0 >>

\* format!("__alloc_{}", alloc_id.0)
AllocName(alloc_id) == << "__alloc_", alloc_id >>
StaticName(def) == << "static", def >>

\* Linkage::merge
MergeLinkage(a, b) ==
  CASE a = "Export" -> "Export"
    [] a = "Preemptible" -> IF b = "Export" THEN "Export" ELSE "Preemptible"
    [] a = "Local" -> IF b \in {"Export", "Preemptible"} THEN b ELSE "Local"
    [] OTHER -> b

Max(a, b) == IF a >= b THEN a ELSE b

\* Module::declare_data: the DataId of a name is the index of its first
\* declaration; a later declaration merges linkage, writability and alignment.
DeclareData(os, name, linkage, writable, align) ==
  IF \E i \in 1..Len(os) : os[i].name = name
  THEN LET i == CHOOSE i \in 1..Len(os) : os[i].name = name
       IN [objs |-> [os EXCEPT ![i].linkage = MergeLinkage(@, linkage),
                               ![i].writable = @ \/ writable,
                               ![i].align = Max(@, align)],
           id |-> i]
  ELSE [objs |-> Append(os, [name |-> name, linkage |-> linkage,
                             writable |-> writable, align |-> align,
                             compiled |-> << >>]),
        id |-> Len(os) + 1]

\* Module::define_data: Err(DuplicateDefinition) when the object is already
\* defined, Err(InvalidImportDefinition) when its linkage is Import.
DefineData(os, data_id, ctx) ==
  IF os[data_id].compiled # << >>
  THEN [objs |-> os, res |-> "DuplicateDefinition"]
  ELSE IF os[data_id].linkage = "Import"
  THEN [objs |-> os, res |-> "InvalidImportDefinition"]
  ELSE [objs |-> [os EXCEPT ![data_id].compiled = << ctx >>], res |-> "Ok"]

\* Module::declare_function as used by import_function.
ImportFunction(fs, instance) ==
  IF \E i \in 1..Len(fs) : fs[i] = instance
  THEN [funcs |-> fs, id |-> CHOOSE i \in 1..Len(fs) : fs[i] = instance]
  ELSE [funcs |-> Append(fs, instance), id |-> Len(fs) + 1]

(***************************************************************************)
(* The machine: the part of the state the resolvers thread through.        *)
(***************************************************************************)

Machine == [objs |-> objs, funcs |-> funcs, log |-> defineLog,
            resolved |-> resolved, pushes |-> pushes, err |-> "none"]

\* by: "weak" for the call in data_id_for_static, "worklist" for the call in
\* define_all_allocs.
LogCall(m, by, data_id, ctx, res) ==
  m.log (+) SetToBag({[by |-> by, data_id |-> data_id, bytes |-> ctx.bytes, res |-> res]})

\* align.bytes() as u8
AsU8(n) == n % 256

\* The machine after a declare_data call, with the DataId it returned.
Declared(m, d) == [m |-> [m EXCEPT !.objs = d.objs], id |-> d.id]

\* A data_id_for_* call returning rm.id for the symbol name.
Returned(rm, name) == [rm EXCEPT !.m.resolved = @ \cup {<< name, rm.id >>}]

\* data_id_for_alloc_id
DataIdForAllocId(m, alloc_id, align) ==
  Returned(Declared(m, DeclareData(m.objs, AllocName(alloc_id), "Local", FALSE, AsU8(align))),
           AllocName(alloc_id))

\* The default body of a weak static: pointer_ty(tcx).bytes() zero bytes.
ZeroBytes == [i \in 1..PtrSize |-> 0]

\* Mutant of WeakDefineOutcome: the result is unwrapped without the
\* DuplicateDefinition arm.
WeakDefineUnwrap(res) == IF res = "Ok" THEN "none" ELSE "unwrap_weak"

\* The match on the result of define_data in data_id_for_static.
WeakDefineOutcome(res) == IF res \in {"Ok", "DuplicateDefinition"} THEN "none" ELSE "unwrap_weak"

\* Mutant of WeakDefault: the check of the static's type is missing.
WeakDefaultNoGuard(rm, rawptr, ctx, r) ==
  [rm EXCEPT !.m.objs = r.objs,
             !.m.log = LogCall(rm.m, "weak", rm.id, ctx, r.res),
             !.m.err = WeakDefineOutcome(r.res)]

\* data_id_for_static, the `if linkage == Linkage::Preemptible` block:
\* rm is the result of the declaration, r of define_data on the zero body.
WeakDefault(rm, rawptr, ctx, r) ==
  IF ~ rawptr
  THEN [rm EXCEPT !.m.err = "fatal"]
  ELSE [rm EXCEPT !.m.objs = r.objs,
                  !.m.log = LogCall(rm.m, "weak", rm.id, ctx, r.res),
                  !.m.err = WeakDefineOutcome(r.res)]

WeakBody == [bytes |-> ZeroBytes, relocs |-> << >>]

\* Mutant of IsWeakLinkage: the default body is not defined at declaration.
IsWeakLinkageNever(linkage) == FALSE

\* Whether data_id_for_static takes the weak-static path.
IsWeakLinkage(linkage) == linkage = "Preemptible"

DataIdForStaticDeclared(rm, def, linkage) ==
  IF IsWeakLinkage(linkage)
  THEN WeakDefault(rm, StaticTable[def].rawptr, WeakBody,
                   DefineData(rm.m.objs, rm.id, WeakBody))
  ELSE rm

\* `data_id` at the end of data_id_for_static, unless the process died.
ReturnUnlessDead(rm, name) == IF rm.m.err = "none" THEN Returned(rm, name) ELSE rm

\* data_id_for_static
DataIdForStatic(m, def, linkage) ==
  ReturnUnlessDead(
    DataIdForStaticDeclared(
      Declared(m, DeclareData(m.objs, StaticName(def), linkage,
                              StaticTable[def].mutable, StaticTable[def].align)),
      def, linkage),
    StaticName(def))

\* crate::linkage::get_static_ref_linkage
GetStaticRefLinkage(def) == IF StaticTable[def].weak THEN "Preemptible" ELSE "Import"

(***************************************************************************)
(* trans_const_value: constants that become immediates.                    *)
(***************************************************************************)

\* A u128 is a sequence of U128Bits bits, least significant first.
U128Bits == 128

\* The u128 of a natural number below 2^16.
ToBits(n) ==
  [i \in 1..U128Bits |-> IF i <= 16 THEN (n \div (2 ^ (i - 1))) % 2 ELSE 0]

\* const_.val.try_to_bits(layout.size): the scalar's data, which the
\* evaluator keeps truncated to size bits (two's complement for a negative
\* value).
TryToBits(v, size) ==
  IF v >= 0
  THEN [i \in 1..U128Bits |-> IF i <= size THEN ToBits(v)[i] ELSE 0]
  ELSE [i \in 1..U128Bits |-> IF i <= size THEN 1 - ToBits(- v - 1)[i] ELSE 0]

\* value << k and ((value as i128) >> k) as u128
Shl(value, k) == [i \in 1..U128Bits |-> IF i - k >= 1 THEN value[i - k] ELSE 0]
Sar(value, k) == [i \in 1..U128Bits |-> IF i + k <= U128Bits THEN value[i + k] ELSE value[U128Bits]]

\* rustc::mir::interpret::sign_extend(value, size), size in bits
SignExtend(value, size) ==
  IF size = 0 THEN value ELSE Sar(Shl(value, U128Bits - size), U128Bits - size)

\* Mutant of IntBits: the width is passed in bytes.
IntBitsSizeInBytes(bits, size) == SignExtend(bits, size \div 8)

\* The ty::Int arm: sign_extend(bits, layout.size)
IntBits(bits, size) == SignExtend(bits, size)

\* Mutant of IsImmediateKind: the ty::Float arm is missing.
IsImmediateKindNoFloat(kind) == kind \in {"Bool", "Uint", "Int", "FnDef"}

\* The arms of `match ty.kind` that do not end in trans_const_place.
IsImmediateKind(kind) == kind \in {"Bool", "Uint", "Int", "Float", "FnDef"}

\* CValue::const_val(fx, ty, const_val): an immediate of the type that holds
\* the bits it is given.
ConstVal(c, const_val) ==
  [how |-> "const_val", kind |-> c.kind, size |-> c.size, v |-> c.v,
   bits |-> const_val, seq |-> 0, data_id |-> 0]

\* What trans_const_value returns for the constant c = [kind, size, v, alloc]:
\* kind of the type, size of its layout in bits, value, and the allocation
\* the constant is interned as when it is not an immediate.
ConstValueOf(c) ==
  CASE c.kind \in {"Bool", "Uint"} -> ConstVal(c, TryToBits(c.v, c.size))
    [] c.kind = "Int" -> ConstVal(c, IntBits(TryToBits(c.v, c.size), c.size))
    [] c.kind = "Float" ->
         [how |-> "by_val", kind |-> c.kind, size |-> c.size, v |-> c.v,
          bits |-> TryToBits(c.v, c.size), seq |-> 0, data_id |-> 0]
    [] c.kind = "FnDef" ->
         [how |-> "by_ref", kind |-> c.kind, size |-> c.size, v |-> c.v,
          bits |-> ToBits(PtrSize), seq |-> 0, data_id |-> 0]
    [] OTHER ->
         [how |-> "place", kind |-> c.kind, size |-> c.size, v |-> c.v,
          bits |-> ToBits(c.alloc), seq |-> 0, data_id |-> 0]

\* No trans_const_value call yet.
NoValue == [how |-> "none", kind |-> "none", size |-> 0, v |-> 0, bits |-> ToBits(0), seq |-> 0, data_id |-> 0]

Const(kind, size, v, alloc) == [kind |-> kind, size |-> size, v |-> v, alloc |-> alloc]

\* The constants code generation meets in the unit.
Constants ==
  { Const("Int", 8, -1, 1), Const("Float", 32, 5, 2), Const("Other", 64, 0, 2) }

(***************************************************************************)
(* define_all_allocs: one iteration of the worklist loop.                  *)
(***************************************************************************)

TodoAlloc(alloc_id) == [kind |-> "Alloc", id |-> alloc_id]
TodoStatic(def) == [kind |-> "Static", id |-> def]

None == [some |-> FALSE, elem |-> TodoAlloc(0)]
Some(e) == [some |-> TRUE, elem |-> e]

\* pop_set: an arbitrary element of the set, or None when it is empty.
PopSet(set) == IF set = {} THEN {None} ELSE {Some(e) : e \in set}

\* Mutant of Remaining: pop_set that returns the element without removing it.
RemainingKeepsElem(set, elem) == set

\* set.remove(&elem) in pop_set
Remaining(set, elem) == set \ {elem}

\* Mutant of PadBytes: the padding loop is missing.
PadBytesNone(bytes) == bytes

\* Mutant of PadBytes: the buffer is extended by 16 - len % 16 bytes, a
\* whole granule when the length is a multiple of 16 already.
PadBytesWholeGranule(bytes) ==
  bytes \o [i \in 1..(PadTo - (Len(bytes) % PadTo)) |-> PadByte]

\* while bytes.len() % 16 != 0 { bytes.push(0xde) }
RECURSIVE PadBytes(_)
PadBytes(bytes) ==
  IF Len(bytes) % PadTo # 0 THEN PadBytes(Append(bytes, PadByte)) ELSE bytes

\* Mutant of Addend: the addend is not read back from the buffer.
AddendZero(alloc, offset) == 0

\* The addend of the relocation at offset: the pointer-sized bytes there.
Addend(alloc, offset) == ReadTargetUint(SubSeq(alloc.bytes, offset + 1, offset + PtrSize))

\* The alignment data_id_for_alloc_id is given for a Memory relocation target.
RelocTargetAlign(lk, alloc, reloc) == alloc.align

\* Mutant of StaticRelocTodo: the target static is scheduled.
StaticRelocTodoPush(def) == {[kind |-> "Static", id |-> def]}

\* What a Static relocation target adds to todo.
StaticRelocTodo(def) == {}

\* Mutant of MemoryRelocTodo: the target allocation is not scheduled.
MemoryRelocTodoNone(reloc) == {}

\* What a Memory relocation target adds to todo.
MemoryRelocTodo(reloc) == {TodoAlloc(reloc)}

\* A relocation entry written into the DataContext.
WriteFunctionAddr(offset, func_id) ==
  [kind |-> "func", offset |-> offset, target |-> func_id, addend |-> 0]
WriteDataAddr(offset, data_id, addend) ==
  [kind |-> "data", offset |-> offset, target |-> data_id, addend |-> addend]

\* Mutant of FunctionArm: the assertion on the addend is missing.
FunctionArmNoAssert(st, offset, addend, f) ==
  [st EXCEPT !.m.funcs = f.funcs,
             !.ctx.relocs = Append(@, WriteFunctionAddr(offset, f.id))]

\* GlobalAlloc::Function arm; f is the result of import_function.
FunctionArm(st, offset, addend, f) ==
  IF addend # 0
  THEN [st EXCEPT !.m.err = "assert_addend"]
  ELSE [st EXCEPT !.m.funcs = f.funcs,
                  !.ctx.relocs = Append(@, WriteFunctionAddr(offset, f.id))]

\* GlobalAlloc::Memory and GlobalAlloc::Static arms; r is the result of the
\* data_id_for_* call, push what the arm inserts into todo.
DataArm(st, offset, addend, r, push) ==
  IF r.m.err # "none"
  THEN [st EXCEPT !.m = r.m]
  ELSE [st EXCEPT !.m = [r.m EXCEPT !.pushes = @ (+) SetToBag(push)],
                  !.todo = @ \cup push,
                  !.ctx.relocs = Append(@, WriteDataAddr(offset, r.id, addend))]

\* The body of `for &(offset, (_tag, reloc)) in alloc.relocations().iter()`
\* for one relocation.  st = [m, todo, ctx].
RelocStep(lk, st, alloc, offset, reloc, target) ==
  CASE target.kind = "Function" ->
         FunctionArm(st, offset, Addend(alloc, offset),
                     ImportFunction(st.m.funcs, target.id))
    [] target.kind = "Memory" ->
         DataArm(st, offset, Addend(alloc, offset),
                 DataIdForAllocId(st.m, reloc, RelocTargetAlign(lk, alloc, reloc)),
                 MemoryRelocTodo(reloc))
    [] OTHER ->
         DataArm(st, offset, Addend(alloc, offset),
                 DataIdForStatic(st.m, target.id, "Import"),
                 StaticRelocTodo(target.id))

\* The relocation loop from relocation i on; a panic ends it.
RECURSIVE RelocLoop(_, _, _, _)
RelocLoop(lk, st, alloc, i) ==
  IF i > Len(alloc.relocs) \/ st.m.err # "none" THEN st
  ELSE RelocLoop(lk,
                 RelocStep(lk, st, alloc, alloc.relocs[i].offset, alloc.relocs[i].reloc,
                           GlobalAlloc(alloc.relocs[i].reloc)),
                 alloc, i + 1)

\* module.define_data(data_id, &data_ctx).unwrap()
UnwrapDefine(res) == IF res = "Ok" THEN "none" ELSE "unwrap_define"

\* Mutant of AlreadyDone: the done check is missing.
NeverDone(dn, data_id) == FALSE

\* if cx.done.contains(&data_id) { continue; }
AlreadyDone(dn, data_id) == data_id \in dn

\* Mutant of DefLinkage: every static the worklist defines is exported.
DefLinkageAlwaysExport(def) == "Export"

\* The linkage define_all_allocs requests for a static it defines.
DefLinkage(def) == IF StaticTable[def].reachable THEN "Export" ELSE "Local"

\* The result of one loop iteration: machine, todo, done, and the bag of ids
\* inserted into done.
IterResult(m, td, dn, ins) == [m |-> m, todo |-> td, done |-> dn, ins |-> ins]

\* Mutant of DefineAndInsert: the data object is defined but not recorded in
\* done.
DefineWithoutInsert(st, dn, data_id, r) ==
  IF UnwrapDefine(r.res) # "none"
  THEN IterResult([st.m EXCEPT !.log = LogCall(st.m, "worklist", data_id, st.ctx, r.res),
                               !.err = UnwrapDefine(r.res)],
                  st.todo, dn, EmptyBag)
  ELSE IterResult([st.m EXCEPT !.objs = r.objs,
                               !.log = LogCall(st.m, "worklist", data_id, st.ctx, r.res)],
                  st.todo, dn, EmptyBag)

\* module.define_data(data_id, &data_ctx).unwrap(); cx.done.insert(data_id);
\* st is the state after the relocation loop, r the result of define_data.
DefineAndInsert(st, dn, data_id, r) ==
  IF UnwrapDefine(r.res) # "none"
  THEN IterResult([st.m EXCEPT !.log = LogCall(st.m, "worklist", data_id, st.ctx, r.res),
                               !.err = UnwrapDefine(r.res)],
                  st.todo, dn, EmptyBag)
  ELSE IterResult([st.m EXCEPT !.objs = r.objs,
                               !.log = LogCall(st.m, "worklist", data_id, st.ctx, r.res)],
                  st.todo, dn \cup {data_id}, SetToBag({data_id}))

AfterRelocs(st, dn, data_id) ==
  IF st.m.err # "none"
  THEN IterResult(st.m, st.todo, dn, EmptyBag)
  ELSE DefineAndInsert(st, dn, data_id, DefineData(st.m.objs, data_id, st.ctx))

\* From `if cx.done.contains(&data_id)` to `cx.done.insert(data_id)`.
BuildObject(lk, m, td, dn, data_id, alloc) ==
  IF AlreadyDone(dn, data_id)
  THEN IterResult(m, td, dn, EmptyBag)
  ELSE AfterRelocs(RelocLoop(lk,
                             [m |-> m, todo |-> td,
                              ctx |-> [bytes |-> PadBytes(alloc.bytes), relocs |-> << >>]],
                             alloc, 1),
                   dn, data_id)

\* r is the result of the data_id_for_* call of the popped item.
BuildResolved(lk, r, td, dn, alloc) ==
  IF r.m.err # "none"
  THEN IterResult(r.m, td, dn, EmptyBag)
  ELSE BuildObject(lk, r.m, td, dn, r.id, alloc)

\* Mutant of SkipStatic: the foreign-item check is missing.
NeverSkipStatic(def) == FALSE

\* if tcx.is_foreign_item(def_id) { continue; }
SkipStatic(def) == StaticTable[def].foreign

\* Mutant of GoodInitializer: the guard on the offset is missing.
GoodInitializerAnyOffset(c) == c.shape = "ByRef"

\* ConstValue::ByRef { alloc, offset } if offset.bytes() == 0
GoodInitializer(c) == c.shape = "ByRef" /\ c.offset = 0

\* TodoItem::Static arm; c is the evaluated initializer.
StaticItem(lk, m, td, dn, def, c) ==
  IF ~ GoodInitializer(c)
  THEN IterResult([m EXCEPT !.err = "bug"], td, dn, EmptyBag)
  ELSE BuildResolved(lk, DataIdForStatic(m, def, DefLinkage(def)), td, dn, c.alloc)

\* TodoItem::Alloc arm; alloc is memory.get(alloc_id).
AllocItem(lk, m, td, dn, alloc_id, alloc) ==
  BuildResolved(lk, DataIdForAllocId(m, alloc_id, alloc.align), td, dn, alloc)

\* The body of the while loop for the popped item; td is todo after the pop.
ProcessItem(lk, m, td, dn, item) ==
  IF item.kind = "Alloc"
  THEN AllocItem(lk, m, td, dn, item.id, MemoryGet(lk, item.id))
  ELSE IF SkipStatic(item.id)
  THEN IterResult(m, td, dn, EmptyBag)
  ELSE StaticItem(lk, m, td, dn, item.id, ConstEval(item.id))

(***************************************************************************)
(* The state machine.                                                      *)
(***************************************************************************)

\* The codegen threads of parallel rustc; they share tcx.
Threads == {1, 2}

\* The pointer graphs: every allocation points at no allocation (0) or at one.
Graphs == [Allocs -> {0} \cup Allocs]

\* ConstantCx::default(), an empty Module, and an evaluated crate.
Init ==
  /\ pc = "codegen"
  /\ err = "none"
  /\ nreq = 0
  /\ link \in Graphs
  /\ todo = {}
  /\ done = {}
  /\ objs = << >>
  /\ funcs = << >>
  /\ defineLog = EmptyBag
  /\ doneIns = EmptyBag
  /\ resolved = {}
  /\ pushes = EmptyBag
  /\ pops = EmptyBag
  /\ initial = {}
  /\ entry = [objs |-> << >>, funcs |-> << >>]
  /\ imm = NoValue
  /\ owner = 0
  /\ at = [u \in Threads |-> "idle"]
  /\ ops = [u \in Threads |-> 0]
  /\ fetched = [u \in Threads |-> "none"]

\* Write a machine back; a fatal error or panic ends the process.
Commit(m) ==
  /\ objs' = m.objs
  /\ funcs' = m.funcs
  /\ defineLog' = m.log
  /\ resolved' = m.resolved
  /\ pushes' = m.pushes
  /\ err' = m.err
  /\ pc' = IF m.err = "none" THEN pc ELSE "aborted"

\* Mutant of SessionLive: finalize borrows the session instead of taking it,
\* so it can still be used when finalize has returned.
SessionBorrowed == pc \in {"codegen", "finished"}

\* The ConstantCx is owned by the CodegenCx and both finalize methods take
\* `self` by value: it can be used as long as finalize has not been called.
SessionLive == pc = "codegen"

\* Mutant of CodegenStatic: the static is declared when it is scheduled.
CodegenStaticDeclares(def) ==
  /\ SessionLive /\ nreq < MaxReq
  /\ nreq' = nreq + 1
  /\ todo' = todo \cup {TodoStatic(def)}
  /\ Commit(DataIdForStatic([Machine EXCEPT !.pushes = @ (+) SetToBag({TodoStatic(def)})],
                             def, DefLinkage(def)).m)
  /\ UNCHANGED << link, done, doneIns, pops, initial, entry, imm, lockvars >>

\* codegen_static
CodegenStatic(def) ==
  /\ SessionLive /\ nreq < MaxReq
  /\ nreq' = nreq + 1
  /\ todo' = todo \cup {TodoStatic(def)}
  /\ pushes' = pushes (+) SetToBag({TodoStatic(def)})
  /\ UNCHANGED << pc, err, link, done, objs, funcs, defineLog, doneIns, resolved,
                  pops, initial, entry, imm, lockvars >>

\* codegen_static_ref
CodegenStaticRef(def) ==
  /\ SessionLive /\ nreq < MaxReq
  /\ nreq' = nreq + 1
  /\ Commit(DataIdForStatic(Machine, def, GetStaticRefLinkage(def)).m)
  /\ UNCHANGED << link, todo, done, doneIns, pops, initial, entry, imm,
                  lockvars >>

\* Mutant of PlaceConstant: the allocation is declared but not scheduled.
PlaceConstantNoInsert(alloc_id) ==
  /\ todo' = todo
  /\ Commit(DataIdForAllocId(Machine, alloc_id, MemoryGet(link, alloc_id).align).m)

\* The body of trans_const_place from create_memory_alloc on.
PlaceConstant(alloc_id) ==
  /\ todo' = todo \cup {TodoAlloc(alloc_id)}
  /\ Commit(DataIdForAllocId([Machine EXCEPT !.pushes = @ (+) SetToBag({TodoAlloc(alloc_id)})],
                              alloc_id, MemoryGet(link, alloc_id).align).m)

\* trans_const_place for a constant whose interned allocation is alloc_id
\* (called by trans_promoted)
TransConstPlace(alloc_id) ==
  /\ SessionLive /\ nreq < MaxReq
  /\ nreq' = nreq + 1
  /\ PlaceConstant(alloc_id)
  /\ UNCHANGED << link, done, doneIns, pops, initial, entry, imm, lockvars >>

\* What fx.tcx.const_eval returns for the promoteds of the unit: Ok with a
\* constant whose interned allocation is alloc, or Err.
PromotedEvals ==
  {[ok |-> TRUE, alloc |-> a] : a \in Allocs} \cup {[ok |-> FALSE, alloc |-> 0]}

\* crate::trap::trap_unreachable_ret_place: a trap instruction and a dummy
\* place of the destination layout.
TrapUnreachableRetPlace ==
  [how |-> "trap", kind |-> "Promoted", size |-> 0, v |-> 0, bits |-> ToBits(0),
   seq |-> 0, data_id |-> 0]

\* Mutant of PromotedErrArm: the result of const_eval is unwrapped.
PromotedErrArmUnwrap(m) ==
  [m |-> [m EXCEPT !.err = "unwrap_promoted"],
   place |-> [TrapUnreachableRetPlace EXCEPT !.how = "none"]]

\* The `Err(_) =>` arm of trans_promoted: the machine it leaves and the
\* place it returns.
PromotedErrArm(m) == [m |-> m, place |-> TrapUnreachableRetPlace]

\* trans_promoted
TransPromoted(ev) ==
  IF ev.ok
  THEN TransConstPlace(ev.alloc)
  ELSE /\ SessionLive /\ nreq < MaxReq
       /\ nreq' = nreq + 1
       /\ Commit(PromotedErrArm(Machine).m)
       /\ imm' = [PromotedErrArm(Machine).place EXCEPT !.seq = nreq + 1]
       /\ UNCHANGED << link, todo, done, doneIns, pops, initial, entry, lockvars >>

\* The data_id trans_const_place hands to cplace_for_dataid.
PlacedId(alloc_id) ==
  DataIdForAllocId(Machine, alloc_id, MemoryGet(link, alloc_id).align).id

\* trans_const_value (called by trans_constant)
TransConstValue(c) ==
  /\ SessionLive /\ nreq < MaxReq
  /\ nreq' = nreq + 1
  /\ imm' = [ConstValueOf(c) EXCEPT
               !.seq = nreq + 1,
               !.data_id = IF IsImmediateKind(c.kind) THEN 0 ELSE PlacedId(c.alloc)]
  /\ IF IsImmediateKind(c.kind)
     THEN UNCHANGED << pc, err, todo, objs, funcs, defineLog, resolved, pushes >>
     ELSE PlaceConstant(c.alloc)
  /\ UNCHANGED << link, done, doneIns, pops, initial, entry, lockvars >>

\* CodegenCx::finalize -> ConstantCx::finalize: enter define_all_allocs
Finalize ==
  /\ SessionLive
  /\ pc' = "loop"
  /\ initial' = todo
  /\ entry' = [objs |-> objs, funcs |-> funcs]
  /\ UNCHANGED << err, nreq, link, todo, done, objs, funcs, defineLog, doneIns,
                  resolved, pushes, pops, imm, lockvars >>

\* Write back the result of one loop iteration.
CommitIter(r) ==
  /\ Commit(r.m)
  /\ todo' = r.todo
  /\ done' = r.done
  /\ doneIns' = doneIns (+) r.ins

\* One pass of `while let Some(todo_item) = pop_set(&mut cx.todo)`
LoopIter ==
  /\ pc = "loop"
  /\ \E p \in PopSet(todo) :
       /\ p.some
       /\ CommitIter(ProcessItem(link, Machine, Remaining(todo, p.elem), done, p.elem))
       /\ pops' = pops (+) SetToBag({p.elem})
  /\ UNCHANGED << nreq, link, initial, entry, imm, lockvars >>

\* pop_set returned None: the assertion, then self.done.clear() in finalize
LoopExit ==
  /\ pc = "loop"
  /\ \E p \in PopSet(todo) :
       /\ ~ p.some
       /\ IF todo = {}
          THEN pc' = "finished" /\ err' = err /\ done' = {}
          ELSE pc' = "aborted" /\ err' = "assert_todo" /\ done' = done
  /\ UNCHANGED << nreq, link, todo, objs, funcs, defineLog, doneIns, resolved,
                  pushes, pops, initial, entry, imm, lockvars >>

Next ==
  \/ \E def \in Statics : CodegenStatic(def)
  \/ \E def \in Statics : CodegenStaticRef(def)
  \/ \E ev \in PromotedEvals : TransPromoted(ev)
  \/ \E c \in Constants : TransConstValue(c)
  \/ Finalize
  \/ LoopIter
  \/ LoopExit

Spec == Init /\ [][Next]_vars

\* The constants of a unit of scalar code: every integer width, the extreme
\* and the small values of each kind.
IntWidths == {8, 16, 32, 64, 128}
IntValues == {-128, -2, -1, 0, 1, 127}
ScalarConstants ==
  {Const("Int", w, v, 1) : w \in IntWidths, v \in IntValues}
    \cup {Const("Uint", w, v, 1) : w \in IntWidths, v \in {0, 1, 255}}
    \cup {Const("Bool", 8, v, 1) : v \in {0, 1}}
    \cup {Const("Float", w, v, 1) : w \in {32, 64}, v \in {0, 5}}
    \cup {Const("FnDef", 0, 0, 1)}
    \cup {Const("Other", 64, 0, a) : a \in Allocs}

\* A unit whose allocations hold no pointers to each other.
ScalarInit == Init /\ link = [a \in Allocs |-> 0]

ScalarNext == \E c \in ScalarConstants : TransConstValue(c)

\* Code generation of a unit that materializes constants only.
ScalarSpec == ScalarInit /\ [][ScalarNext]_vars

(***************************************************************************)
(* A unit whose constants are plain data of every length from 0 to MaxLen: *)
(* the same requests and the same worklist, over an allocation store that  *)
(* holds one allocation of each length.                                    *)
(***************************************************************************)

\* The AllocId create_memory_alloc hands out for the allocation of a length.
SizedId(len) == 100 + len

\* memory.get(alloc_id) in this unit: len bytes of data, 1-aligned, no
\* relocations.
SizedGet(alloc_id) == Allocation(alloc_id - SizedId(0), 1, << >>)

\* trans_const_place for the constant of a length
SizedPlace(len) ==
  /\ SessionLive /\ nreq < MaxReq
  /\ nreq' = nreq + 1
  /\ todo' = todo \cup {TodoAlloc(SizedId(len))}
  /\ Commit(DataIdForAllocId([Machine EXCEPT !.pushes = @ (+) SetToBag({TodoAlloc(SizedId(len))})],
                              SizedId(len), SizedGet(SizedId(len)).align).m)
  /\ UNCHANGED << link, done, doneIns, pops, initial, entry, imm, lockvars >>

\* One pass of the loop of define_all_allocs over this allocation store
SizedLoopIter ==
  /\ pc = "loop"
  /\ \E p \in PopSet(todo) :
       /\ p.some
       /\ CommitIter(AllocItem(link, Machine, Remaining(todo, p.elem), done,
                                p.elem.id, SizedGet(p.elem.id)))
       /\ pops' = pops (+) SetToBag({p.elem})
  /\ UNCHANGED << nreq, link, initial, entry, imm, lockvars >>

SizedNext ==
  \/ \E len \in 0..MaxLen : SizedPlace(len)
  \/ Finalize
  \/ SizedLoopIter
  \/ LoopExit

SizedSpec == ScalarInit /\ [][SizedNext]_vars

(***************************************************************************)
(* The lock of tcx.alloc_map.  Each thread runs the two pieces of code     *)
(* that take it: the body of the relocation loop of define_all_allocs      *)
(* (fetch the target, then resolve it) and trans_const_place               *)
(* (create_memory_alloc, then data_id_for_alloc_id).  The lock is not      *)
(* reentrant: a thread that asks for it waits until nobody holds it.       *)
(***************************************************************************)

\* Mutant of GuardAfterStatement: the fetch is inlined into the match, so
\* the guard lives as long as the match.
GuardHeldInMatch(u) == u

\* The owner of the lock when the statement
\* `let reloc_target_alloc = tcx.alloc_map.lock().get(reloc).unwrap();` (or
\* `let alloc_id = ..lock().create_memory_alloc(alloc);`) of thread u has
\* ended: the guard is a temporary of that statement.
GuardAfterStatement(u) == 0

\* tcx.alloc_map.lock()
Acquire(u, from, to) ==
  /\ at[u] = from
  /\ owner = 0
  /\ owner' = u
  /\ at' = [at EXCEPT ![u] = to]
  /\ UNCHANGED << ops, fetched >>

\* A thread starts the body of the relocation loop for the next relocation.
BeginReloc(u) ==
  /\ at[u] = "idle" /\ ops[u] < MaxReq
  /\ at' = [at EXCEPT ![u] = "lock_get"]
  /\ UNCHANGED << owner, ops, fetched >>

\* A thread starts trans_const_place (after the allocation is interned).
BeginPlace(u) ==
  /\ at[u] = "idle" /\ ops[u] < MaxReq
  /\ at' = [at EXCEPT ![u] = "lock_create"]
  /\ UNCHANGED << owner, ops, fetched >>

LockForGet(u) == Acquire(u, "lock_get", "get")
LockForCreate(u) == Acquire(u, "lock_create", "create")

\* .get(reloc).unwrap(), end of the statement
GetTarget(u) ==
  /\ at[u] = "get"
  /\ \E kind \in {"Function", "Memory", "Static"} : fetched' = [fetched EXCEPT ![u] = kind]
  /\ owner' = GuardAfterStatement(u)
  /\ at' = [at EXCEPT ![u] = "resolve"]
  /\ UNCHANGED ops

\* .create_memory_alloc(alloc), end of the statement
CreateMemoryAlloc(u) ==
  /\ at[u] = "create"
  /\ fetched' = [fetched EXCEPT ![u] = "Memory"]
  /\ owner' = GuardAfterStatement(u)
  /\ at' = [at EXCEPT ![u] = "resolve"]
  /\ UNCHANGED ops

\* The end of the step: the match (or trans_const_place) is left and every
\* guard of the thread is gone.
EndStep(u) ==
  /\ owner' = IF owner = u THEN 0 ELSE owner
  /\ at' = [at EXCEPT ![u] = "idle"]
  /\ ops' = [ops EXCEPT ![u] = @ + 1]
  /\ fetched' = [fetched EXCEPT ![u] = "none"]

\* import_function, data_id_for_alloc_id or data_id_for_static runs and
\* does not need tcx.alloc_map.
ResolveWithoutLock(u) ==
  /\ at[u] = "resolve"
  /\ EndStep(u)

\* The resolver needs tcx.alloc_map itself (data_id_for_static computing the
\* layout of the static).
ResolveNeedsLock(u) ==
  /\ at[u] = "resolve"
  /\ at' = [at EXCEPT ![u] = "nested_lock"]
  /\ UNCHANGED << owner, ops, fetched >>

LockNested(u) == Acquire(u, "nested_lock", "nested_get")

\* The resolver is done with tcx.alloc_map and returns.
ResolveReturns(u) ==
  /\ at[u] = "nested_get"
  /\ EndStep(u)

ThreadStep(u) ==
  \/ BeginReloc(u)
  \/ BeginPlace(u)
  \/ LockForGet(u)
  \/ LockForCreate(u)
  \/ GetTarget(u)
  \/ CreateMemoryAlloc(u)
  \/ ResolveWithoutLock(u)
  \/ ResolveNeedsLock(u)
  \/ LockNested(u)
  \/ ResolveReturns(u)

LockNext == \E u \in Threads : ThreadStep(u) /\ UNCHANGED unitvars

\* Threads using tcx.alloc_map; a thread that can take a step takes one
\* sooner or later, also when the lock is free only now and then.
LockSpec == ScalarInit /\ [][LockNext]_vars
LockFairSpec == LockSpec /\ \A u \in Threads : SF_vars(ThreadStep(u) /\ UNCHANGED unitvars)

\* A step of the loop of define_all_allocs.
LoopStep == LoopIter \/ LoopExit

\* The loop of define_all_allocs runs to completion: finalize has no
\* suspension points, so a process that is inside the loop takes its next
\* step.  This is weak fairness of LoopStep, written out with the enabling
\* condition of <<LoopStep>>_vars, which is pc = "loop": with todo empty
\* LoopExit changes pc, otherwise LoopIter adds to pops.
FairSpec == Spec /\ ([]<>(pc # "loop") \/ []<><<LoopStep>>_vars)

(***************************************************************************)
(* Observations used by the properties.                                    *)
(***************************************************************************)

\* The DataId declared for a symbol, 0 when it is not declared.
DataIdOf(name) ==
  IF \E i \in 1..Len(objs) : objs[i].name = name
  THEN CHOOSE i \in 1..Len(objs) : objs[i].name = name
  ELSE 0

\* The define_data calls made for a DataId by one call site.
CallsBy(by, data_id) ==
  LET which == {c \in BagToSet(defineLog) : c.by = by /\ c.data_id = data_id}
  IN BagCardinality([c \in which |-> defineLog[c]])

\* All define_data calls made for a DataId.
CallsFor(data_id) == CallsBy("weak", data_id) + CallsBy("worklist", data_id)

IsDefined(data_id) == data_id # 0 /\ objs[data_id].compiled # << >>

\* The memory allocations an allocation points at.
MemTargets(alloc) ==
  {alloc.relocs[j].reloc : j \in 1..Len(alloc.relocs)} \cap Allocs

\* The statics an allocation points at.
StaticTargets(alloc) ==
  {d \in Statics : \E j \in 1..Len(alloc.relocs) : alloc.relocs[j].reloc = StaticAllocId(d)}

RECURSIVE MemClosure(_)
MemClosure(S) ==
  LET n == S \cup UNION {MemTargets(MemoryGet(link, a)) : a \in S}
  IN IF n = S THEN S ELSE MemClosure(n)

\* The statics finalize was asked to define: scheduled and not foreign.
ScheduledStatics ==
  {d \in Statics : TodoStatic(d) \in initial /\ ~ StaticTable[d].foreign}

\* The allocations reachable from the initial requests through Memory
\* relocations, starting at requested allocations and at the initializers
\* of the scheduled non-foreign statics.
ReachAllocs ==
  MemClosure({a \in Allocs : TodoAlloc(a) \in initial}
             \cup UNION {MemTargets(ConstEval(d).alloc) : d \in ScheduledStatics})

(***************************************************************************)
(* Properties.                                                             *)
(***************************************************************************)

\* C1 (idempotence): however often an AllocId is discovered (trans_const_place
\* or Memory relocation target), define_data is never called twice for its
\* data object, and once finalize has returned it has been called exactly once.
C1_Idempotence ==
  \A a \in Allocs :
    /\ DataIdOf(AllocName(a)) # 0 => CallsFor(DataIdOf(AllocName(a))) <= 1
    /\ (pc = "finished" /\ CopiesIn(TodoAlloc(a), pushes) >= 1)
         => (DataIdOf(AllocName(a)) # 0 /\ CallsFor(DataIdOf(AllocName(a))) = 1)

\* C1 witness: finalize returned and some allocation was discovered three
\* times, twice by trans_const_place and once as a relocation target.
C1_Witness ==
  /\ pc = "finished"
  /\ \E a \in Allocs :
       /\ CopiesIn(TodoAlloc(a), pushes) >= 3
       /\ CallsFor(DataIdOf(AllocName(a))) = 1

\* C2 (termination): once define_all_allocs is entered the process reaches
\* the end of finalize or dies on a panic, whatever the graph and the order
\* of the pops: every pass of the loop either adds a data object to done or
\* leaves done alone and shrinks todo.  The assertion after the loop never
\* fails, and todo is empty when finalize has returned.
C2_Termination ==
  /\ (pc = "loop") ~> (pc \in {"finished", "aborted"})
  /\ [][(pc = "loop" /\ pc' = "loop") =>
          \/ (done \subseteq done' /\ done' # done)
          \/ (done' = done /\ todo' \subseteq todo /\ todo' # todo)]_vars
  /\ [](err # "assert_todo")
  /\ [](pc = "finished" => todo = {})

\* C2 witness: finalize returned on a graph with a mutual cycle that was
\* entered (both allocations of the cycle were popped).
C2_Witness ==
  /\ pc = "finished"
  /\ \E a, b \in Allocs :
       /\ a # b /\ link[a] = b /\ link[b] = a
       /\ CopiesIn(TodoAlloc(a), pops) >= 1 /\ CopiesIn(TodoAlloc(b), pops) >= 1

\* C3 (completeness for allocations): when finalize has returned, every
\* allocation reachable from the initial requests through Memory relocations
\* is defined, with its own padded bytes, and entered done exactly once.
C3_AllocsComplete ==
  pc = "finished" =>
    \A a \in ReachAllocs :
      /\ IsDefined(DataIdOf(AllocName(a)))
      /\ objs[DataIdOf(AllocName(a))].compiled[1].bytes = PadBytes(MemoryGet(link, a).bytes)
      /\ CopiesIn(DataIdOf(AllocName(a)), doneIns) = 1

\* C3 witness: only static 1 was scheduled, and allocation 2 was reached
\* through its initializer and allocation 1.
C3_Witness ==
  /\ pc = "finished"
  /\ initial = {TodoStatic(1)}
  /\ link[1] = 2
  /\ IsDefined(DataIdOf(AllocName(2)))

\* The statics that processed allocations point at: targets of Static
\* relocations in the reachable allocations and in the initializers of the
\* scheduled statics.
ReferencedStatics ==
  UNION ({StaticTargets(MemoryGet(link, a)) : a \in ReachAllocs}
         \cup {StaticTargets(ConstEval(d).alloc) : d \in ScheduledStatics})

\* C4 as claimed: when finalize has returned, every static scheduled by
\* codegen_static or referenced by a Static relocation entered done exactly
\* once.
C4_Original ==
  pc = "finished" =>
    \A d \in {d \in Statics : TodoStatic(d) \in initial} \cup ReferencedStatics :
      CopiesIn(DataIdOf(StaticName(d)), doneIns) = 1

\* C4 (completeness for statics, amended): when finalize has returned, every
\* non-foreign static scheduled by codegen_static is defined with its padded
\* initializer and entered done exactly once; every other static (foreign, or
\* only the target of a Static relocation) was not defined by the worklist
\* and never entered done.
C4_StaticsComplete ==
  pc = "finished" =>
    \A d \in Statics :
      IF d \in ScheduledStatics
      THEN /\ IsDefined(DataIdOf(StaticName(d)))
           /\ objs[DataIdOf(StaticName(d))].compiled[1].bytes
                = PadBytes(ConstEval(d).alloc.bytes)
           /\ CopiesIn(DataIdOf(StaticName(d)), doneIns) = 1
      ELSE \/ DataIdOf(StaticName(d)) = 0
           \/ /\ CopiesIn(DataIdOf(StaticName(d)), doneIns) = 0
              /\ CallsBy("worklist", DataIdOf(StaticName(d))) = 0

\* C4 witness: static 1 was scheduled and defined; the foreign static 2 its
\* initializer points at is declared and not defined.
C4_Witness ==
  /\ pc = "finished"
  /\ 1 \in ScheduledStatics
  /\ IsDefined(DataIdOf(StaticName(1)))
  /\ DataIdOf(StaticName(2)) # 0
  /\ ~ IsDefined(DataIdOf(StaticName(2)))

\* What points at allocation a: allocations and static initializers.
Referrers(a) ==
  Cardinality({b \in Allocs : a \in MemTargets(MemoryGet(link, b))})
    + Cardinality({d \in Statics : a \in MemTargets(ConstEval(d).alloc)})

\* C5 (cycle safety): an allocation that points at itself never gets a second
\* define_data call, is popped at most once per request and once per object
\* that points at it, and is defined exactly once when finalize has returned;
\* and a finalize that has such an allocation on its worklist comes to an end.
C5_SelfCycle ==
  /\ [](\A a \in Allocs :
          link[a] = a =>
            /\ DataIdOf(AllocName(a)) # 0 => CallsFor(DataIdOf(AllocName(a))) <= 1
            /\ CopiesIn(TodoAlloc(a), pops) <= 1 + Referrers(a)
            /\ (pc = "finished" /\ a \in ReachAllocs) =>
                 /\ IsDefined(DataIdOf(AllocName(a)))
                 /\ CallsFor(DataIdOf(AllocName(a))) = 1
                 /\ CopiesIn(DataIdOf(AllocName(a)), doneIns) = 1)
  /\ (pc = "loop" /\ \E a \in Allocs : link[a] = a /\ TodoAlloc(a) \in todo)
       ~> (pc \in {"finished", "aborted"})

\* C5 witness: a self-referential allocation was popped, defined, pushed
\* again by its own relocation and popped again.
C5_Witness ==
  /\ pc = "finished"
  /\ \E a \in Allocs :
       /\ link[a] = a
       /\ CopiesIn(TodoAlloc(a), pops) = 2
       /\ CallsFor(DataIdOf(AllocName(a))) = 1

\* The symbol of a todo item.
ItemName(item) == IF item.kind = "Alloc" THEN AllocName(item.id) ELSE StaticName(item.id)

\* C6 (single definition): no DataId is inserted into done twice, the
\* worklist calls define_data at most once per DataId, what is in done was
\* inserted once; and a pass of the loop that pops an item whose DataId is
\* already in done makes no define_data call and leaves done alone.
C6_SingleDefinition ==
  /\ [](\A id \in 1..Len(objs) :
          /\ CopiesIn(id, doneIns) <= 1
          /\ CallsBy("worklist", id) <= 1
          /\ id \in done => CopiesIn(id, doneIns) = 1 /\ IsDefined(id))
  /\ [][\A item \in todo :
          (/\ pc = "loop"
           /\ pops' = pops (+) SetToBag({item})
           /\ DataIdOf(ItemName(item)) \in done)
          => (defineLog' = defineLog /\ done' = done /\ doneIns' = doneIns
              /\ pc' = "loop")]_vars

\* C6 witness: an allocation that does not point at itself was popped a
\* second time, after it had been defined.
C6_Witness ==
  /\ pc = "finished"
  /\ \E a \in Allocs :
       /\ link[a] # a
       /\ CopiesIn(TodoAlloc(a), pops) >= 2
       /\ CallsBy("worklist", DataIdOf(AllocName(a))) = 1

\* C7 as claimed: every buffer passed to define_data has a length that is a
\* multiple of 16.
C7_Original ==
  \A c \in BagToSet(defineLog) : Len(c.bytes) % PadTo = 0

\* C7 (padding, amended): every buffer the worklist passes to define_data has
\* a length that is a multiple of 16; the default body of a weak static is
\* passed unpadded, with exactly pointer width.
C7_Padding ==
  \A c \in BagToSet(defineLog) :
    /\ c.by = "worklist" => Len(c.bytes) % PadTo = 0
    /\ c.by = "weak" => Len(c.bytes) = PtrSize

\* C7 witness: the 20 bytes of allocation 1 were passed as 32 bytes, and a
\* weak default body was passed too.
C7_Witness ==
  /\ \E c \in BagToSet(defineLog) :
       /\ c.by = "worklist" /\ c.data_id = DataIdOf(AllocName(1))
       /\ Len(c.bytes) = 32 /\ c.bytes[32] = PadByte
  /\ \E c \in BagToSet(defineLog) : c.by = "weak"

\* C8 as claimed: the data object of a foreign static is never passed to
\* define_data.
C8_Original ==
  \A d \in Statics :
    StaticTable[d].foreign =>
      (DataIdOf(StaticName(d)) = 0 \/ CallsFor(DataIdOf(StaticName(d))) = 0)

\* C8 (foreign statics, amended): the worklist never passes the data object
\* of a foreign static to define_data and never adds it to done; a foreign
\* static that is not weak is never defined at all; the only buffers passed
\* for a foreign static are weak default bodies; and the pass of the loop
\* that pops a foreign Static item changes nothing but todo.
C8_ForeignStatics ==
  /\ [](\A d \in Statics :
          (StaticTable[d].foreign /\ DataIdOf(StaticName(d)) # 0) =>
            /\ CallsBy("worklist", DataIdOf(StaticName(d))) = 0
            /\ CopiesIn(DataIdOf(StaticName(d)), doneIns) = 0
            /\ DataIdOf(StaticName(d)) \notin done
            /\ ~ StaticTable[d].weak => ~ IsDefined(DataIdOf(StaticName(d)))
            /\ \A c \in BagToSet(defineLog) :
                 c.data_id = DataIdOf(StaticName(d)) => (c.by = "weak" /\ c.bytes = ZeroBytes))
  /\ [][\A d \in Statics :
          (/\ StaticTable[d].foreign
           /\ pc = "loop"
           /\ pops' = pops (+) SetToBag({TodoStatic(d)}))
          => (/\ todo' = todo \ {TodoStatic(d)}
              /\ pc' = "loop"
              /\ UNCHANGED << err, done, objs, funcs, defineLog, doneIns, resolved, pushes >>)]_vars

\* C8 witness: the foreign weak static 3 was referenced (its default body
\* defined), scheduled, and popped by finalize.
C8_Witness ==
  /\ pc = "finished"
  /\ CopiesIn(TodoStatic(3), pops) = 1
  /\ CallsBy("weak", DataIdOf(StaticName(3))) = 1

\* The DataIds data_id_for_static has returned for a static.
ResolvedIds(d) == {r[2] : r \in {r \in resolved : r[1] = StaticName(d)}}

\* The define_data calls for a DataId that succeeded.
OkCalls(data_id) ==
  LET which == {c \in BagToSet(defineLog) : c.res = "Ok" /\ c.data_id = data_id}
  IN BagCardinality([c \in which |-> defineLog[c]])

\* C9 (weak-static dual declaration): however often a weak static of raw
\* pointer type is resolved, exactly one definition of it succeeds and the
\* symbol table holds the zero body; the DuplicateDefinition of the later
\* attempts never panics; every resolution returned the same DataId.
C9_WeakDual ==
  /\ err # "unwrap_weak"
  /\ \A d \in Statics :
       (/\ StaticTable[d].weak /\ StaticTable[d].rawptr
        /\ DataIdOf(StaticName(d)) # 0
        /\ CallsBy("weak", DataIdOf(StaticName(d))) >= 1) =>
         /\ OkCalls(DataIdOf(StaticName(d))) = 1
         /\ objs[DataIdOf(StaticName(d))].compiled = << WeakBody >>
         /\ ResolvedIds(d) = {DataIdOf(StaticName(d))}

\* C9 witness: a weak static was resolved twice and the process goes on.
C9_Witness ==
  /\ pc # "aborted"
  /\ \E d \in Statics :
       /\ CallsBy("weak", DataIdOf(StaticName(d))) = 2
       /\ OkCalls(DataIdOf(StaticName(d))) = 1

\* C10 (weak-static type guard): a static declared with Preemptible linkage
\* whose type is not a raw pointer ends the process with the fatal
\* diagnostic, no define_data call is made for it and the resolution does
\* not return; one of raw pointer type is defined with PtrSize zero bytes
\* and the resolution returns its DataId.
C10_WeakTypeGuard ==
  \A d \in Statics :
    (DataIdOf(StaticName(d)) # 0
       /\ objs[DataIdOf(StaticName(d))].linkage = "Preemptible") =>
      IF StaticTable[d].rawptr
      THEN /\ CallsBy("weak", DataIdOf(StaticName(d))) >= 1
           /\ IsDefined(DataIdOf(StaticName(d)))
           /\ objs[DataIdOf(StaticName(d))].compiled[1].bytes = [i \in 1..PtrSize |-> 0]
           /\ DataIdOf(StaticName(d)) \in ResolvedIds(d)
      ELSE /\ pc = "aborted" /\ err = "fatal"
           /\ CallsFor(DataIdOf(StaticName(d))) = 0
           /\ ~ IsDefined(DataIdOf(StaticName(d)))
           /\ ResolvedIds(d) = {}

\* C10 witness: the weak static 3 (raw pointer) was resolved and defined,
\* then the weak static 4 (not a raw pointer) ended the process.
C10_Witness ==
  /\ pc = "aborted" /\ err = "fatal"
  /\ IsDefined(DataIdOf(StaticName(3)))
  /\ DataIdOf(StaticName(4)) # 0

\* The relocation entries of the DataContext a DataId was defined with that
\* sit at an offset.
EntriesAt(data_id, offset) ==
  {j \in 1..Len(objs[data_id].compiled[1].relocs) :
     objs[data_id].compiled[1].relocs[j].offset = offset}

\* The pointer p of a defined object was emitted as one data-address
\* relocation at its offset, against the data object of its target b, with
\* the addend the evaluator stored.
Emitted(data_id, p, b) ==
  /\ Cardinality(EntriesAt(data_id, p.offset)) = 1
  /\ \A j \in EntriesAt(data_id, p.offset) :
       objs[data_id].compiled[1].relocs[j]
         = [kind |-> "data", offset |-> p.offset,
            target |-> DataIdOf(AllocName(b)), addend |-> p.addend]
  /\ DataIdOf(AllocName(b)) # 0
  /\ pc = "finished" =>
       /\ IsDefined(DataIdOf(AllocName(b)))
       /\ objs[DataIdOf(AllocName(b))].compiled[1].bytes = PadBytes(MemoryGet(link, b).bytes)

\* C11 (relocation roundtrip): for every defined allocation or static
\* initializer and every pointer in it to a memory allocation B, stored with
\* addend X at offset O, the object carries one data-address relocation at O
\* whose target is the DataId of B's symbol and whose addend is X; when
\* finalize has returned, B is defined under that DataId.
C11_RelocRoundtrip ==
  /\ \A a \in Allocs :
       IsDefined(DataIdOf(AllocName(a))) =>
         \A j \in 1..Len(MemoryRelocs(link, a)) :
           MemoryRelocs(link, a)[j].reloc \in Allocs =>
             Emitted(DataIdOf(AllocName(a)), MemoryRelocs(link, a)[j],
                     MemoryRelocs(link, a)[j].reloc)
  /\ \A d \in Statics :
       (CallsBy("worklist", DataIdOf(StaticName(d))) >= 1
          /\ objs[DataIdOf(StaticName(d))].compiled # << WeakBody >>) =>
         \A j \in 1..Len(StaticTable[d].relocs) :
           StaticTable[d].relocs[j].reloc \in Allocs =>
             Emitted(DataIdOf(StaticName(d)), StaticTable[d].relocs[j],
                     StaticTable[d].relocs[j].reloc)

\* C11 witness: allocation 1 points at allocation 2 with addend 257 (two
\* nonzero bytes in the buffer); both are defined.
C11_Witness ==
  /\ pc = "finished"
  /\ link[1] = 2
  /\ IsDefined(DataIdOf(AllocName(1)))
  /\ \E j \in EntriesAt(DataIdOf(AllocName(1)), 0) :
       objs[DataIdOf(AllocName(1))].compiled[1].relocs[j].addend = 257

\* C12 (scalar short-circuit): a trans_const_value call on a constant of
\* boolean, integer or float type returns an immediate and leaves the symbol
\* table (no declare_data, no define_data), todo and done as they were.
C12_ScalarShortCircuit ==
  [][(nreq' # nreq /\ imm'.seq = nreq'
        /\ imm'.kind \in {"Bool", "Uint", "Int", "Float"}) =>
       /\ imm'.how \in {"const_val", "by_val"}
       /\ UNCHANGED << todo, done, objs, funcs, defineLog, doneIns, resolved, pushes >>]_vars

\* C12 witness: a float constant was materialized after a constant that was
\* placed in memory, so todo and the symbol table are not empty.
C12_Witness ==
  /\ imm.kind = "Float" /\ imm.how = "by_val" /\ imm.seq = 2
  /\ todo # {} /\ objs # << >>

\* A u128 reinterpreted as unsigned at width w, as a number of one more bit
\* than a u128.
Unsigned(bits, w) == [i \in 1..(U128Bits + 1) |-> IF i <= w THEN bits[i] ELSE 0]

\* The number that bits i..w of a bit sequence stand for (w up to 16).
RECURSIVE NumberFrom(_, _, _)
NumberFrom(bits, i, w) == IF i > w THEN 0 ELSE bits[i] + 2 * NumberFrom(bits, i + 1, w)

NumberOf(bits, w) == NumberFrom(bits, 1, w)

\* x + n for a natural number n below 2^16: the low 16 bits are added as
\* numbers, the carry out of them runs through the ones above.
Plus(x, n) ==
  [i \in 1..(U128Bits + 1) |->
     IF i <= 16
     THEN ((NumberOf(x, 16) + n) \div (2 ^ (i - 1))) % 2
     ELSE (x[i] + (IF NumberOf(x, 16) + n >= 2 ^ 16 /\ \A k \in 17..(i - 1) : x[k] = 1
                   THEN 1 ELSE 0)) % 2]

\* 2^w
TwoTo(w) == [i \in 1..(U128Bits + 1) |-> IF i = w + 1 THEN 1 ELSE 0]

\* C13 (sign extension): the immediate of a negative constant v of a signed
\* integer type of width w, reinterpreted as unsigned at width w, is
\* 2^w - |v| (as a sum: immediate + |v| = 2^w; as a number for the widths 8
\* and 16); the immediate of a non-negative v is v.
C13_SignExtension ==
  imm.kind = "Int" =>
    IF imm.v < 0
    THEN /\ Plus(Unsigned(imm.bits, imm.size), - imm.v) = TwoTo(imm.size)
         /\ imm.size <= 16 =>
              NumberOf(Unsigned(imm.bits, imm.size), imm.size) = 2 ^ imm.size - (- imm.v)
    ELSE /\ Unsigned(imm.bits, imm.size) = Unsigned(ToBits(imm.v), U128Bits)
         /\ imm.bits = ToBits(imm.v)

\* C13 witness: the 32-bit -1 gave 32 ones at width 32 (0xFFFF_FFFF).
C13_Witness ==
  /\ imm.kind = "Int" /\ imm.v = -1 /\ imm.size = 32
  /\ \A i \in 1..32 : Unsigned(imm.bits, 32)[i] = 1
  /\ Unsigned(imm.bits, 32)[33] = 0

\* C14 (stable identity): all resolutions of one target (an AllocId, from
\* trans_const_place, the worklist or a relocation; a static, with any
\* linkage) returned one DataId, the one the symbol table holds for its name,
\* and resolutions of different targets returned different DataIds.
C14_StableIdentity ==
  /\ \A r1, r2 \in resolved : (r1[1] = r2[1]) <=> (r1[2] = r2[2])
  /\ \A r \in resolved : r[2] = DataIdOf(r[1])
  /\ \A a, b \in Allocs :
       (a # b /\ DataIdOf(AllocName(a)) # 0) => DataIdOf(AllocName(a)) # DataIdOf(AllocName(b))

\* C14 witness: allocation 1 was resolved by trans_const_place, by the
\* worklist and as the target of static 1's relocation; static 1 was resolved
\* with Import linkage (relocation of allocation 1) and with Export linkage
\* (worklist); allocation 2 was resolved too.
C14_Witness ==
  /\ pc = "finished"
  /\ {TodoStatic(1), TodoAlloc(1)} \subseteq initial
  /\ link[1] = 2
  /\ objs[DataIdOf(StaticName(1))].linkage = "Export"
  /\ Cardinality(resolved) = 4

\* C15 (lock discipline): no thread holds the lock of tcx.alloc_map while
\* it runs a resolver or waits for the lock inside one: the lock is held only
\* inside the statement that fetches the target (or creates the allocation).
\* So a thread that waits for the lock gets it, and every thread finishes its
\* step.
C15_LockDiscipline ==
  /\ [](\A u \in Threads :
          /\ at[u] \in {"resolve", "nested_lock"} => owner # u
          /\ owner = u => at[u] \in {"get", "create", "nested_get"})
  /\ \A u \in Threads : (at[u] # "idle") ~> (at[u] = "idle")

\* C15 witness: thread 1 runs data_id_for_static for a target it fetched and
\* waits for the lock, which thread 2 holds to fetch a target.
C15_Witness ==
  /\ at[1] = "nested_lock" /\ fetched[1] = "Static"
  /\ owner = 2 /\ at[2] = "get"

\* C16 (session lifecycle): a session starts with todo and done empty; done
\* stays empty until finalize; finalize is entered once, from code
\* generation, and leaves todo empty and done cleared; once finalize has
\* returned (or the process has died) nothing reads or changes the session.
C16_SessionLifecycle ==
  /\ []((pc = "codegen" /\ nreq = 0) => (todo = {} /\ done = {}))
  /\ [](pc = "codegen" => done = {})
  /\ [](pc = "finished" => (todo = {} /\ done = {}))
  /\ [][(pc' = "loop" /\ pc # "loop") => (pc = "codegen" /\ initial = {} /\ pops = EmptyBag)]_vars
  /\ [][pc # "codegen" => pc' # "codegen"]_vars
  /\ [][(pc \in {"finished", "aborted"}) => UNCHANGED unitvars]_vars

\* C16 witness: finalize has returned after defining data objects (done was
\* filled and cleared) and code generation had requests left to make.
C16_Witness ==
  /\ pc = "finished"
  /\ doneIns # EmptyBag /\ done = {}
  /\ nreq < MaxReq

\* C17 as claimed: an item that has been popped and defined is not inserted
\* into todo again and is popped exactly once.
C17_Original ==
  \A a \in Allocs :
    (pc \in {"loop", "finished"} /\ IsDefined(DataIdOf(AllocName(a)))) =>
      /\ TodoAlloc(a) \notin todo
      /\ CopiesIn(TodoAlloc(a), pops) = 1

\* The allocation a todo item is built from.
ItemAlloc(item) ==
  IF item.kind = "Alloc" THEN MemoryGet(link, item.id) ELSE ConstEval(item.id).alloc

\* C17 (re-push, amended): while finalize runs, every insertion into todo is
\* of a Memory relocation target of the item popped in that pass; an item
\* that has been popped and defined can be inserted and popped again, and is
\* then skipped: the worklist never calls define_data for it twice.  In a
\* cyclic pair A -> B -> A each of A and B is defined exactly once when
\* finalize has returned, and one of them has been popped more than once.
C17_Repush ==
  /\ [][\A item \in todo :
          (pc = "loop" /\ pops' = pops (+) SetToBag({item})) =>
            /\ \A t \in BagToSet(pushes') :
                 CopiesIn(t, pushes') > CopiesIn(t, pushes) =>
                   (t.kind = "Alloc" /\ t.id \in MemTargets(ItemAlloc(item)))
            /\ todo' \subseteq todo \cup {TodoAlloc(b) : b \in MemTargets(ItemAlloc(item))}]_vars
  /\ [](\A id \in 1..Len(objs) : CallsBy("worklist", id) <= 1)
  /\ [](\A a, b \in Allocs :
          (pc = "finished" /\ a # b /\ link[a] = b /\ link[b] = a /\ a \in ReachAllocs) =>
            /\ CallsFor(DataIdOf(AllocName(a))) = 1
            /\ CallsFor(DataIdOf(AllocName(b))) = 1
            /\ CopiesIn(DataIdOf(AllocName(a)), doneIns) = 1
            /\ CopiesIn(DataIdOf(AllocName(b)), doneIns) = 1
            /\ CopiesIn(TodoAlloc(a), pops) + CopiesIn(TodoAlloc(b), pops) >= 3)

\* C17 witness: in the cycle 1 -> 2 -> 1, requested once through allocation
\* 1, allocation 1 was popped twice and allocation 2 once; each was defined
\* once.
C17_Witness ==
  /\ pc = "finished"
  /\ link[1] = 2 /\ link[2] = 1
  /\ initial = {TodoAlloc(1)}
  /\ CopiesIn(TodoAlloc(1), pops) = 2 /\ CopiesIn(TodoAlloc(2), pops) = 1
  /\ CallsFor(DataIdOf(AllocName(1))) = 1 /\ CallsFor(DataIdOf(AllocName(2))) = 1

\* C18 as claimed: the symbol of a memory allocation is declared with the
\* allocation's own alignment, also when it is resolved as the target of a
\* Memory relocation of an allocation of another alignment.
C18_Original ==
  \A b \in Allocs :
    DataIdOf(AllocName(b)) # 0 =>
      objs[DataIdOf(AllocName(b))].align = MemoryGet(link, b).align

\* The pointer p of a defined object to the static d was emitted as one
\* data-address relocation at its offset, against the data object of d, with
\* the addend the evaluator stored.
EmittedStatic(data_id, p, d) ==
  /\ Cardinality(EntriesAt(data_id, p.offset)) = 1
  /\ \A j \in EntriesAt(data_id, p.offset) :
       objs[data_id].compiled[1].relocs[j]
         = [kind |-> "data", offset |-> p.offset,
            target |-> DataIdOf(StaticName(d)), addend |-> p.addend]
  /\ DataIdOf(StaticName(d)) # 0
  /\ objs[DataIdOf(StaticName(d))].linkage \in
       {"Import"} \cup (IF TodoStatic(d) \in BagToSet(pops) THEN {DefLinkage(d)} ELSE {})

\* C19 (static relocation targets are never scheduled): while finalize runs
\* no Static item is inserted into todo, and a pass of the loop inserts
\* nothing but the Memory relocation targets of the popped item; a pointer to
\* a static in a defined object is one data-address relocation against the
\* static's DataId with the stored addend, and the static is declared with
\* Import linkage unless the worklist defined it itself.
C19_StaticTargets ==
  /\ [][pc = "loop" =>
          /\ \A t \in BagToSet(pushes') :
               CopiesIn(t, pushes') > CopiesIn(t, pushes) => t.kind = "Alloc"
          /\ {t \in todo' : t.kind = "Static"} \subseteq todo]_vars
  /\ [][\A item \in todo :
          (pc = "loop" /\ pops' = pops (+) SetToBag({item})) =>
            todo' \subseteq todo \cup {TodoAlloc(b) : b \in MemTargets(ItemAlloc(item))}]_vars
  /\ [](\A a \in Allocs :
          IsDefined(DataIdOf(AllocName(a))) =>
            \A j \in 1..Len(MemoryRelocs(link, a)) :
              \A d \in Statics :
                MemoryRelocs(link, a)[j].reloc = StaticAllocId(d) =>
                  EmittedStatic(DataIdOf(AllocName(a)), MemoryRelocs(link, a)[j], d))
  /\ [](\A s \in Statics :
          (CallsBy("worklist", DataIdOf(StaticName(s))) >= 1
             /\ objs[DataIdOf(StaticName(s))].compiled # << WeakBody >>) =>
            \A j \in 1..Len(StaticTable[s].relocs) :
              \A d \in Statics :
                StaticTable[s].relocs[j].reloc = StaticAllocId(d) =>
                  EmittedStatic(DataIdOf(StaticName(s)), StaticTable[s].relocs[j], d))

\* C19 witness: allocation 1, which points at static 1 with addend 4, is
\* defined; static 1 was never scheduled: it is declared with Import linkage
\* and not defined.
C19_Witness ==
  /\ pc = "finished"
  /\ IsDefined(DataIdOf(AllocName(1)))
  /\ TodoStatic(1) \notin BagToSet(pushes)
  /\ objs[DataIdOf(StaticName(1))].linkage = "Import"
  /\ ~ IsDefined(DataIdOf(StaticName(1)))

\* The function relocations of the initializer of a static / of an allocation.
FnRelocs(relocs) ==
  {j \in 1..Len(relocs) :
     relocs[j].reloc \notin Allocs /\ \A d \in Statics : relocs[j].reloc # StaticAllocId(d)}

\* The function pointer p of a defined object was emitted as one
\* function-address relocation at its offset against the imported function.
EmittedFunction(data_id, p) ==
  /\ p.addend = 0
  /\ Cardinality(EntriesAt(data_id, p.offset)) = 1
  /\ \A j \in EntriesAt(data_id, p.offset) :
       /\ objs[data_id].compiled[1].relocs[j].kind = "func"
       /\ objs[data_id].compiled[1].relocs[j].target \in 1..Len(funcs)
       /\ funcs[objs[data_id].compiled[1].relocs[j].target] = p.reloc - FnAllocId(0)

\* C20 (function relocation targets): an object with a function pointer of
\* nonzero addend is never defined: the assertion ends the process when it
\* is popped; a function pointer of addend 0 in a defined object is exactly
\* one function-address relocation at its offset against the imported
\* function and no data-address relocation; and a pass of the loop over an
\* object whose pointers are all function pointers inserts nothing into todo.
C20_FunctionTargets ==
  /\ [](err = "assert_addend" => pc = "aborted")
  /\ [](\A d \in Statics :
          (\E j \in FnRelocs(StaticTable[d].relocs) : StaticTable[d].relocs[j].addend # 0) =>
            /\ CallsFor(DataIdOf(StaticName(d))) = 0
            /\ TodoStatic(d) \in BagToSet(pops) => (pc = "aborted" /\ err = "assert_addend"))
  /\ [](\A a \in Allocs :
          IsDefined(DataIdOf(AllocName(a))) =>
            \A j \in FnRelocs(MemoryRelocs(link, a)) :
              EmittedFunction(DataIdOf(AllocName(a)), MemoryRelocs(link, a)[j]))
  /\ [][\A item \in todo :
          (/\ pc = "loop"
           /\ pops' = pops (+) SetToBag({item})
           /\ item.kind = "Alloc"
           /\ FnRelocs(MemoryRelocs(link, item.id)) = 1..Len(MemoryRelocs(link, item.id)))
          => (todo' = todo \ {item} /\ pushes' = pushes)]_vars

\* C20 witness: allocation 2, whose only pointer is a function pointer with
\* addend 0, was defined with one function-address relocation; then static 7,
\* whose function pointer has addend 1, was popped and the assertion failed.
C20_Witness ==
  /\ pc = "aborted" /\ err = "assert_addend"
  /\ link[2] = 0
  /\ IsDefined(DataIdOf(AllocName(2)))
  /\ Len(objs[DataIdOf(AllocName(2))].compiled[1].relocs) = 1
  /\ objs[DataIdOf(AllocName(2))].compiled[1].relocs[1].kind = "func"
  /\ TodoStatic(7) \in BagToSet(pops)

\* C21 (static initializer shape): the pass of the loop that pops a
\* non-foreign Static item whose evaluated initializer is an immediate or a
\* reference at a nonzero offset ends the process as an internal bug, without
\* a declare_data or define_data call and without touching done; such a
\* static is never defined by the worklist and never enters done.
C21_InitializerShape ==
  /\ [][\A d \in Statics :
          (/\ pc = "loop" /\ TodoStatic(d) \in todo
           /\ pops' = pops (+) SetToBag({TodoStatic(d)})
           /\ ~ StaticTable[d].foreign
           /\ (ConstEval(d).shape # "ByRef" \/ ConstEval(d).offset # 0))
          => (/\ pc' = "aborted" /\ err' = "bug"
              /\ UNCHANGED << objs, funcs, defineLog, resolved, done, doneIns, pushes >>)]_vars
  /\ [](\A d \in Statics :
          (~ StaticTable[d].foreign
             /\ (ConstEval(d).shape # "ByRef" \/ ConstEval(d).offset # 0)
             /\ DataIdOf(StaticName(d)) # 0) =>
            /\ CallsBy("worklist", DataIdOf(StaticName(d))) = 0
            /\ CopiesIn(DataIdOf(StaticName(d)), doneIns) = 0
            /\ DataIdOf(StaticName(d)) \notin done)
  /\ [](err = "bug" =>
          \E d \in Statics :
            /\ TodoStatic(d) \in BagToSet(pops)
            /\ (ConstEval(d).shape # "ByRef" \/ ConstEval(d).offset # 0))

\* C21 witness: static 8 (an immediate) was referenced, so it is declared,
\* and scheduled; finalize popped it and died on the internal bug.
C21_Witness ==
  /\ pc = "aborted" /\ err = "bug"
  /\ TodoStatic(8) \in BagToSet(pops)
  /\ DataIdOf(StaticName(8)) # 0
  /\ ~ IsDefined(DataIdOf(StaticName(8)))

\* C22 (static linkage at definition): the pass of the loop that pops a
\* non-foreign static with a well-shaped initializer leaves its symbol
\* declared Export when the static is reachable from outside the unit and
\* Local otherwise (a symbol a weak reference had declared Preemptible keeps
\* that linkage where Local was requested); every static the worklist defined
\* has exactly that linkage; and the worklist never requests Preemptible (no
\* weak default body is defined while finalize runs) or Import (its
\* define_data never meets an imported symbol).
C22_DefinitionLinkage ==
  /\ [][\A d \in Statics :
          (/\ pc = "loop" /\ TodoStatic(d) \in todo
           /\ pops' = pops (+) SetToBag({TodoStatic(d)})
           /\ ~ StaticTable[d].foreign
           /\ ConstEval(d).shape = "ByRef" /\ ConstEval(d).offset = 0)
          => /\ DataIdOf(StaticName(d))' # 0
             /\ objs'[DataIdOf(StaticName(d))'].linkage =
                  IF StaticTable[d].reachable THEN "Export"
                  ELSE IF DataIdOf(StaticName(d)) # 0
                          /\ objs[DataIdOf(StaticName(d))].linkage = "Preemptible"
                       THEN "Preemptible" ELSE "Local"]_vars
  /\ [](\A d \in Statics :
          (DataIdOf(StaticName(d)) # 0
             /\ \E c \in BagToSet(defineLog) :
                  c.by = "worklist" /\ c.res = "Ok" /\ c.data_id = DataIdOf(StaticName(d))) =>
            objs[DataIdOf(StaticName(d))].linkage =
              IF StaticTable[d].reachable THEN "Export" ELSE "Local")
  /\ [][pc = "loop" =>
          \A c \in BagToSet(defineLog') :
            c.by = "weak" => CopiesIn(c, defineLog') = CopiesIn(c, defineLog)]_vars
  /\ [](\A c \in BagToSet(defineLog) :
          c.by = "worklist" => c.res # "InvalidImportDefinition")

\* C22 witness: finalize defined static 1 (reachable), which a relocation
\* of allocation 1 also imports, as Export and static 6 (private) as Local.
C22_Witness ==
  /\ pc = "finished"
  /\ IsDefined(DataIdOf(StaticName(1))) /\ objs[DataIdOf(StaticName(1))].linkage = "Export"
  /\ IsDefined(DataIdOf(StaticName(6))) /\ objs[DataIdOf(StaticName(6))].linkage = "Local"

\* C23 (non-scalar constants are scheduled): a trans_const_value call on a
\* constant that is not of boolean, integer, float or function item type
\* inserts TodoItem::Alloc of its allocation into todo and returns a place
\* at the data object declared for that allocation, never an immediate; when
\* finalize has returned, that data object is defined with the allocation's
\* bytes.  (A value of kind "Promoted" is the return of a failed
\* trans_promoted, not of trans_const_value.)
C23_NonScalarScheduled ==
  /\ [][(nreq' # nreq /\ imm'.seq = nreq'
          /\ imm'.kind # "Promoted"
          /\ imm'.kind \notin {"Bool", "Uint", "Int", "Float", "FnDef"}) =>
         /\ imm'.how = "place"
         /\ \E a \in Allocs :
              /\ imm'.bits = ToBits(a)
              /\ TodoAlloc(a) \in todo'
              /\ pushes' = pushes (+) SetToBag({TodoAlloc(a)})
              /\ imm'.data_id # 0
              /\ imm'.data_id = DataIdOf(AllocName(a))']_vars
  /\ [](imm.how \in {"const_val", "by_val", "by_ref"} =>
          imm.kind \in {"Bool", "Uint", "Int", "Float", "FnDef"})
  /\ []((pc = "finished" /\ imm.how = "place") =>
          /\ IsDefined(imm.data_id)
          /\ \E a \in Allocs :
               /\ imm.data_id = DataIdOf(AllocName(a))
               /\ objs[imm.data_id].compiled[1].bytes = PadBytes(MemoryGet(link, a).bytes))

\* C23 witness: a constant of another type was materialized as a place at
\* the data object of allocation 2, then a static was scheduled, and
\* finalize defined the data object of allocation 2.
C23_Witness ==
  /\ pc = "finished"
  /\ imm.how = "place" /\ imm.seq = 1 /\ nreq = 2
  /\ imm.data_id = DataIdOf(AllocName(2))
  /\ IsDefined(imm.data_id)

C25_WeakAtDeclaration ==
  /\ [](\A d \in Statics :
          (DataIdOf(StaticName(d)) # 0 /\ StaticTable[d].rawptr
             /\ objs[DataIdOf(StaticName(d))].linkage = "Preemptible") =>
            /\ IsDefined(DataIdOf(StaticName(d)))
            /\ pc = "codegen" =>
                 objs[DataIdOf(StaticName(d))].compiled[1] = [bytes |-> ZeroBytes, relocs |-> << >>])
  /\ [][\A d \in Statics :
          (/\ StaticTable[d].rawptr
           /\ DataIdOf(StaticName(d))' # 0
           /\ objs'[DataIdOf(StaticName(d))'].linkage = "Preemptible"
           /\ (DataIdOf(StaticName(d)) = 0
                \/ objs[DataIdOf(StaticName(d))].linkage # "Preemptible"))
          => /\ \E c \in BagToSet(defineLog') :
                  /\ c.by = "weak" /\ c.res = "Ok"
                  /\ c.data_id = DataIdOf(StaticName(d))'
                  /\ CopiesIn(c, defineLog') = 1 /\ CopiesIn(c, defineLog) = 0
             /\ Len(objs'[DataIdOf(StaticName(d))'].compiled[1].bytes) = PtrSize]_vars
  /\ [][(\E c \in BagToSet(defineLog') :
            c.by = "weak" /\ CopiesIn(c, defineLog') > CopiesIn(c, defineLog)) =>
         (pc = "codegen" /\ pc' = "codegen" /\ todo' = todo /\ pushes' = pushes
            /\ initial = {} /\ pops = EmptyBag)]_vars

\* C25 witness: code generation has referenced the weak static 3 once; it is
\* defined with eight zero bytes, todo is empty and finalize has not run.
C25_Witness ==
  /\ pc = "codegen" /\ nreq = 1 /\ todo = {}
  /\ IsDefined(DataIdOf(StaticName(3)))
  /\ objs[DataIdOf(StaticName(3))].compiled[1].bytes = << 0, 0, 0, 0, 0, 0, 0, 0 >>
  /\ CallsBy("weak", DataIdOf(StaticName(3))) = 1

\* C26 (data object bytes): the buffer the worklist passes to define_data
\* for an allocation of length L is the L raw bytes of the allocation
\* followed by exactly (16 - L mod 16) mod 16 bytes 0xde and nothing else;
\* for L a multiple of 16, 0 included, it is the raw bytes alone; and the
\* data object is defined with that buffer.
C26_DataObjectBytes ==
  \A c \in BagToSet(defineLog) :
    c.by = "worklist" =>
      \E L \in 0..MaxLen :
        /\ c.data_id = DataIdOf(AllocName(SizedId(L)))
        /\ Len(c.bytes) = L + ((16 - (L % 16)) % 16)
        /\ \A i \in 1..L : c.bytes[i] = SizedGet(SizedId(L)).bytes[i]
        /\ \A i \in (L + 1)..Len(c.bytes) : c.bytes[i] = 222
        /\ L % 16 = 0 => c.bytes = SizedGet(SizedId(L)).bytes
        /\ objs[c.data_id].compiled[1].bytes = c.bytes

\* C26 witness: finalize defined the empty allocation with no bytes and
\* the allocation of 17 bytes with 32, the last 15 of them filler.
C26_Witness ==
  /\ pc = "finished"
  /\ IsDefined(DataIdOf(AllocName(SizedId(0))))
  /\ objs[DataIdOf(AllocName(SizedId(0)))].compiled[1].bytes = << >>
  /\ IsDefined(DataIdOf(AllocName(SizedId(17))))
  /\ Len(objs[DataIdOf(AllocName(SizedId(17)))].compiled[1].bytes) = 32
  /\ objs[DataIdOf(AllocName(SizedId(17)))].compiled[1].bytes[17] # 222
  /\ objs[DataIdOf(AllocName(SizedId(17)))].compiled[1].bytes[18] = 222

\* C27 as claimed: the define_data call that ends a pass of the loop never
\* fails: the unwrap never panics and every define_data call of the worklist
\* returns Ok; in particular it never meets a data object that an earlier
\* operation has defined (DuplicateDefinition), the weak default body of
\* data_id_for_static included.
C27_Original ==
  /\ err # "unwrap_define"
  /\ \A c \in BagToSet(defineLog) :
       c.by = "worklist" => (c.res = "Ok" /\ c.res # "DuplicateDefinition")

\* One order HashSet iteration may produce: allocations before statics,
\* each by ascending id.
ItemRank(item) == (IF item.kind = "Alloc" THEN 0 ELSE 100) + item.id

\* pop_set under that order.
LeastItem(set) == CHOOSE e \in set : \A f \in set : ItemRank(e) <= ItemRank(f)

\* The loop of define_all_allocs run to its end under that order, from the
\* iteration result r.
RECURSIVE InOrder(_, _)
InOrder(lk, r) ==
  IF r.m.err # "none" \/ r.todo = {} THEN r
  ELSE InOrder(lk, ProcessItem(lk, r.m, Remaining(r.todo, LeastItem(r.todo)), r.done,
                               LeastItem(r.todo)))

\* finalize as it would have run, under that order, from the state in which
\* it was called.
Reference ==
  InOrder(link,
          IterResult([objs |-> entry.objs, funcs |-> entry.funcs, log |-> EmptyBag,
                      resolved |-> {}, pushes |-> EmptyBag, err |-> "none"],
                     initial, {}, EmptyBag))

\* What a module holds, told by symbol name: every data object with its
\* linkage, writability and alignment and, when defined, its bytes and its
\* relocation entries against the names of their targets.
ModuleView(os, fs) ==
  {[name |-> os[i].name, linkage |-> os[i].linkage, writable |-> os[i].writable,
    align |-> os[i].align,
    defined |-> os[i].compiled # << >>,
    bytes |-> IF os[i].compiled # << >> THEN os[i].compiled[1].bytes ELSE << >>,
    relocs |-> IF os[i].compiled # << >>
               THEN {[kind |-> os[i].compiled[1].relocs[j].kind,
                      offset |-> os[i].compiled[1].relocs[j].offset,
                      addend |-> os[i].compiled[1].relocs[j].addend,
                      target |-> IF os[i].compiled[1].relocs[j].kind = "data"
                                 THEN os[os[i].compiled[1].relocs[j].target].name
                                 ELSE << "fn", fs[os[i].compiled[1].relocs[j].target] >>] :
                     j \in 1..Len(os[i].compiled[1].relocs)}
               ELSE {}] :
   i \in 1..Len(os)}

\* The names of the data objects the worklist defined, by a define log.
DefinedNames(os, log) ==
  {os[c.data_id].name : c \in {c \in BagToSet(log) : c.by = "worklist" /\ c.res = "Ok"}}

\* C28 (pop-order independence): whatever order pop_set removed the items
\* in, a finalize that has returned defined the same data objects as the run
\* that pops them in a fixed order from the same requests and the same
\* graph, and left every symbol with the same linkage, writability and
\* alignment, the same bytes and the same relocation entries (targets told
\* by symbol name: DataIds are handed out in the order of declaration and do
\* depend on the order); and finalize dies on a panic in one order only if
\* it does in the fixed order.
C28_PopOrder ==
  /\ pc = "finished" =>
       /\ Reference.m.err = "none" /\ Reference.todo = {}
       /\ DefinedNames(objs, defineLog) = DefinedNames(Reference.m.objs, Reference.m.log)
       /\ ModuleView(objs, funcs) = ModuleView(Reference.m.objs, Reference.m.funcs)
  /\ (pc = "aborted" /\ pops # EmptyBag) => Reference.m.err # "none"

\* C28 witness: finalize has returned from a worklist of two items that it
\* popped in another order than the fixed one: the DataIds differ, the
\* objects by name do not.
C28_Witness ==
  /\ pc = "finished"
  /\ Cardinality(initial) = 2
  /\ objs # Reference.m.objs
  /\ Cardinality(DefinedNames(objs, defineLog)) >= 3

\* The part of a history of resolutions that is about statics.
OfStatics(res) == {r \in res : r[1][1] = "static"}

\* C29 (only scheduled statics are defined): the worklist defines the
\* initializer of a static only if codegen_static scheduled it before
\* finalize; the step that schedules a static inserts its Static item and
\* leaves the symbol table alone (nothing declared, nothing defined); a step
\* of code generation that resolves a static inserts nothing into todo, and
\* no Static item is inserted while finalize runs; so when finalize has
\* returned, a static that was only referenced is declared and holds no
\* initializer: it is undefined or holds the weak default body.
C29_OnlyScheduled ==
  /\ [](\A d \in Statics :
          (DataIdOf(StaticName(d)) # 0 /\ CallsBy("worklist", DataIdOf(StaticName(d))) >= 1) =>
            (TodoStatic(d) \in initial /\ CopiesIn(TodoStatic(d), pushes) >= 1))
  /\ [][\A d \in Statics :
          (pc = "codegen" /\ pushes' = pushes (+) SetToBag({TodoStatic(d)})) =>
            /\ todo' = todo \cup {TodoStatic(d)}
            /\ pc' = "codegen"
            /\ UNCHANGED << objs, funcs, defineLog, resolved, done, doneIns >>]_vars
  /\ [][(pc = "codegen" /\ (OfStatics(resolved') # OfStatics(resolved)
                               \/ defineLog' # defineLog)) =>
         (todo' = todo /\ pushes' = pushes)]_vars
  /\ [][pc = "loop" =>
         \A d \in Statics : CopiesIn(TodoStatic(d), pushes') = CopiesIn(TodoStatic(d), pushes)]_vars
  /\ [](\A d \in Statics :
          (pc = "finished" /\ DataIdOf(StaticName(d)) # 0
             /\ CopiesIn(TodoStatic(d), pushes) = 0) =>
            /\ CallsBy("worklist", DataIdOf(StaticName(d))) = 0
            /\ CopiesIn(DataIdOf(StaticName(d)), doneIns) = 0
            /\ objs[DataIdOf(StaticName(d))].compiled \in
                 {<< >>, << [bytes |-> ZeroBytes, relocs |-> << >>] >>})

\* C29 witness: static 1 was scheduled and static 3 referenced; finalize
\* defined static 1 and, for its relocation, declared static 2; static 2 is
\* undefined and static 3 holds its default body only.
C29_Witness ==
  /\ pc = "finished"
  /\ CopiesIn(TodoStatic(1), pushes) = 1 /\ IsDefined(DataIdOf(StaticName(1)))
  /\ DataIdOf(StaticName(2)) # 0 /\ ~ IsDefined(DataIdOf(StaticName(2)))
  /\ DataIdOf(StaticName(3)) # 0 /\ CallsBy("worklist", DataIdOf(StaticName(3))) = 0

====
